---- MODULE Spec2Model ----
(***************************************************************************)
(* Adaptive topic clustering engine of youtube-semantic-search:            *)
(* src/src/services/topic_clustering_service.py (TopicClusteringService,   *)
(* get_topic_clustering_service), the count() wrapper of                   *)
(* src/src/services/vectordb_service.py and the /topics routes of          *)
(* src/app.py.                                                             *)
(*                                                                         *)
(* Seven specifications share the operators below:                         *)
(*   Spec         the snapshot store under concurrent rebuild requests:    *)
(*                the singleton accessor, the rebuild lock, load_snapshot, *)
(*                needs_rebuild, save_snapshot_atomic on a file system     *)
(*                with a temp file, and the changing collection;           *)
(*   SpecReaders  get_topics and get_cluster, which take no lock, next to  *)
(*                a forced rebuild;                                        *)
(*   SpecCallers  three unforced rebuild requests on the one service that  *)
(*                is already created;                                      *)
(*   SpecSearch   the adaptive search loop of rebuild;                     *)
(*   SpecAssemble _build_cluster_members, label_clusters, build_snapshot;  *)
(*   SpecQuery    get_topics as a function of snapshot and arguments;      *)
(*   SpecPreprocess  preprocess_embeddings as a function of the shape of   *)
(*                the embedding matrix.                                    *)
(*                                                                         *)
(* Text is a sequence of character codes, so that lower(), strip() and     *)
(* string order are computed and not assumed.  A noise ratio is kept as    *)
(* the pair (noise points, points): the code's float comparisons are       *)
(* decided exactly on it.                                                  *)
(***************************************************************************)
EXTENDS Integers, Sequences, FiniteSets, TLC

VARIABLES
    collection,   \* the Chroma collection: ids in insertion order
    changes,      \* number of changes made to the collection so far
    faults,       \* number of environment failures injected so far
    hdbscan,      \* module global hdbscan: TRUE when the import succeeded
    singleton,    \* _topic_service_singleton: 0 is None, else an instance
    lock,         \* lock[i]: self._lock of instance i, 0 when free, else its holder
    cache,        \* cache[i]: self._snapshot_cache of instance i, 0 for None, else a heap ref
    heap,         \* the snapshot dicts alive in the process, by reference
    tmpFile,      \* the file at snapshot_path + '.tmp' (NoFile when absent)
    snapFile,     \* the file at snapshot_path (NoFile when absent)
    clock,        \* number of snapshots built so far (generated_at)
    thr,          \* per request thread: program counter and locals
    srch,         \* state of the search loop (SpecSearch)
    asm,          \* state of the assembling pipeline (SpecAssemble)
    qry,          \* state of the query under test (SpecQuery)
    pre           \* state of the preprocessing under test (SpecPreprocess)

vars == <<collection, changes, faults, hdbscan, singleton, lock, cache, heap,
          tmpFile, snapFile, clock, thr, srch, asm, qry, pre>>

storeVars == <<collection, changes, faults, hdbscan, singleton, lock, cache,
               heap, tmpFile, snapFile, clock, thr>>

-----------------------------------------------------------------------------
(* Bounds of the model.                                                    *)

MaxVideos == 2      \* distinct video ids the collection draws from
MaxChanges == 1     \* collection changes in one behaviour
MaxFaults == 1      \* injected environment failures in one behaviour
MaxLabel == 1        \* largest cluster id the clustering algorithm returns
MaxPoints == 3       \* largest number of points a labeling is drawn for
MaxClusters == 3     \* largest number of clusters in a queried snapshot
MaxOffset == 2       \* largest offset of a query
MaxLimit == 2        \* largest limit of a query

Threads == {1, 2}
VideoIds == 1 .. MaxVideos

-----------------------------------------------------------------------------
(* Program constants.                                                      *)

CHROMA_BATCH_SIZE == 100
TOPIC_CLUSTERING_MIN_CLUSTER_SIZE_FLOOR == 5
TOPIC_CLUSTERING_MIN_CLUSTER_SIZE_MAX == 150
TOPIC_CLUSTERING_LABEL_MAX_KEYWORDS == 4
TOPIC_CLUSTERING_PCA_MAX_COMPONENTS == 50
max_iters == 6
batch_size == 25

-----------------------------------------------------------------------------
(* Python values.                                                          *)

\* None where the other values are records
None == [none |-> TRUE]
\* limit=None of get_topics; an integer limit n is <<n>>
NoLimit == <<>>
\* an absent file; a file is the sequence of the chunks flushed to it
NoFile == [exists |-> FALSE, data |-> <<>>]

Min(a, b) == IF a <= b THEN a ELSE b
Max(a, b) == IF a >= b THEN a ELSE b

Range(s) == {s[i] : i \in 1 .. Len(s)}

\* s[a:b] of Python for 0 <= a, 0 <= b (0-based, b exclusive)
Slice(s, a, b) ==
    LET lo == Min(a, Len(s))
        hi == Min(b, Len(s))
    IN  IF hi <= lo THEN <<>> ELSE SubSeq(s, lo + 1, hi)

\* str.lower() on one character code
LowerChar(c) == IF c >= 65 /\ c <= 90 THEN c + 32 ELSE c

\* str.lower()
lower(s) == [i \in 1 .. Len(s) |-> LowerChar(s[i])]

RECURSIVE strip(_)
\* str.strip(): leading and trailing blanks (code 32) removed
strip(s) ==
    IF s = <<>> THEN s
    ELSE IF Head(s) = 32 THEN strip(Tail(s))
    ELSE IF s[Len(s)] = 32 THEN strip(SubSeq(s, 1, Len(s) - 1))
    ELSE s

RECURSIVE StrLess(_, _)
\* a < b on Python strings: code point order, a proper prefix is smaller
StrLess(a, b) ==
    IF b = <<>> THEN FALSE
    ELSE IF a = <<>> THEN TRUE
    ELSE IF Head(a) # Head(b) THEN Head(a) < Head(b)
    ELSE StrLess(Tail(a), Tail(b))

\* str(n) for 0 <= n <= 99
DecStr(n) == IF n < 10 THEN <<48 + n>> ELSE <<48 + (n \div 10), 48 + (n % 10)>>

\* f"cluster_{cid}"
PlaceholderLabel(cid) == <<99, 108, 117, 115, 116, 101, 114, 95>> \o DecStr(cid)

-----------------------------------------------------------------------------
(* Parameters and scoring.                                                 *)

\* int(f * n) for the fractions the code uses: the float product truncates
\* to the same integer as the exact one for every n <= 200000 and every
\* min_cluster_size <= 150.
IntFrac(num, den, n) == (num * n) \div den

derive_params_low(n) ==
    [min_cluster_size |-> TOPIC_CLUSTERING_MIN_CLUSTER_SIZE_FLOOR,
     min_samples |-> TOPIC_CLUSTERING_MIN_CLUSTER_SIZE_FLOOR]

derive_params(n) ==
    LET floor_ == TOPIC_CLUSTERING_MIN_CLUSTER_SIZE_FLOOR
        cap == TOPIC_CLUSTERING_MIN_CLUSTER_SIZE_MAX
        raw == IF n <= 100 THEN Max(floor_, IntFrac(8, 100, n))
               ELSE IF n <= 500 THEN Max(floor_, IntFrac(4, 100, n))
               ELSE IF n <= 1500 THEN Max(floor_, IntFrac(2, 100, n))
               ELSE IF n <= 3000 THEN Max(floor_, IntFrac(8, 1000, n))
               ELSE Max(floor_, IntFrac(6, 1000, n))
        mcs == Max(floor_, Min(cap, raw))
        ms == Max(2, IntFrac(3, 10, mcs))
    IN  IF n <= 0 THEN derive_params_low(n)
        ELSE [min_cluster_size |-> mcs, min_samples |-> ms]

\* target_min of rebuild
target_min(n) == Max(15, Min(80, n \div 120))

\* ClusterMetrics of a labeling: noise_ratio is noise / total (0.0 when empty)
evaluate(labels) ==
    IF Len(labels) = 0 THEN [cluster_count |-> 0, noise |-> 0, total |-> 0]
    ELSE [cluster_count |-> Cardinality(Range(labels) \ {-1}),
          noise |-> Cardinality({i \in 1 .. Len(labels) : labels[i] = -1}),
          total |-> Len(labels)]

\* a.noise_ratio < b.noise_ratio
NoiseLess(a, b) ==
    IF a.total = 0 \/ b.total = 0
    THEN (a.total = 0 /\ b.total # 0 /\ b.noise > 0)
    ELSE a.noise * b.total < b.noise * a.total

\* metrics.noise_ratio <= 0.65
NoiseAccepted(m) == m.total = 0 \/ m.noise * 100 <= 65 * m.total

\* a tracking that keeps the evaluation made last
better_latest(metrics, best_state) == TRUE

\* "Track best": the condition under which best_state is replaced
better(metrics, best_state) ==
    \/ best_state = None
    \/ metrics.cluster_count > best_state.metrics.cluster_count
    \/ /\ metrics.cluster_count = best_state.metrics.cluster_count
       /\ NoiseLess(metrics, best_state.metrics)

\* an acceptance on either condition
accepted_either(metrics, n) ==
    metrics.cluster_count >= target_min(n) \/ NoiseAccepted(metrics)

\* "Early accept conditions"
accepted(metrics, n) ==
    metrics.cluster_count >= target_min(n) /\ NoiseAccepted(metrics)

\* the adaptation without its max(floor_, ...)
shrink_unclamped(params) ==
    LET mcs == IntFrac(3, 4, params.min_cluster_size)
    IN  [min_cluster_size |-> mcs, min_samples |-> Max(3, IntFrac(35, 100, mcs))]

\* an adaptation with the floor 2 of derive_params for min_samples
shrink_floor2(params) ==
    LET mcs == Max(TOPIC_CLUSTERING_MIN_CLUSTER_SIZE_FLOOR,
                   IntFrac(3, 4, params.min_cluster_size))
    IN  [min_cluster_size |-> mcs, min_samples |-> Max(2, IntFrac(35, 100, mcs))]

\* "Adapt parameters for next iteration"
shrink(params) ==
    LET mcs == Max(TOPIC_CLUSTERING_MIN_CLUSTER_SIZE_FLOOR,
                   IntFrac(3, 4, params.min_cluster_size))
    IN  [min_cluster_size |-> mcs, min_samples |-> Max(3, IntFrac(35, 100, mcs))]

\* The state of the search before the first iteration
search_init(n) ==
    [n |-> n, it |-> 0, params |-> derive_params(n), selection_method |-> "leaf",
     best_state |-> None, evals |-> 0, stop |-> "", last |-> None]

\* an iteration of a loop that ends only by its two breaks ("while True")
search_step_unbounded(st, labels, metrics) ==
    LET cur == [metrics |-> metrics, labels |-> labels, params |-> st.params,
                selection_method |-> st.selection_method]
        best == IF better(metrics, st.best_state) THEN cur ELSE st.best_state
        base == [st EXCEPT !.best_state = best, !.evals = @ + 1, !.it = @ + 1,
                           !.last = cur]
    IN  IF accepted(metrics, st.n) THEN [base EXCEPT !.stop = "accept"]
        ELSE IF st.params.min_cluster_size <= TOPIC_CLUSTERING_MIN_CLUSTER_SIZE_FLOOR
        THEN IF st.selection_method = "leaf"
             THEN [base EXCEPT !.selection_method = "eom"]
             ELSE [base EXCEPT !.stop = "floor"]
        ELSE [base EXCEPT !.params = shrink(st.params)]

\* One iteration of "for it in range(max_iters)": run_hdbscan returned labels,
\* whose score is metrics.  stop names the way the loop was left.
search_step(st, labels, metrics) ==
    LET cur == [metrics |-> metrics, labels |-> labels, params |-> st.params,
                selection_method |-> st.selection_method]
        best == IF better(metrics, st.best_state) THEN cur ELSE st.best_state
        base == [st EXCEPT !.best_state = best, !.evals = @ + 1, !.it = @ + 1,
                           !.last = cur]
        floor_ == TOPIC_CLUSTERING_MIN_CLUSTER_SIZE_FLOOR
    IN  IF accepted(metrics, st.n) THEN [base EXCEPT !.stop = "accept"]
        ELSE IF st.params.min_cluster_size <= floor_
        THEN IF st.selection_method = "leaf"
             THEN [base EXCEPT !.selection_method = "eom",
                               !.stop = IF st.it + 1 >= max_iters THEN "iters" ELSE ""]
             ELSE [base EXCEPT !.stop = "floor"]
        ELSE [base EXCEPT !.params = shrink(st.params),
                          !.stop = IF st.it + 1 >= max_iters THEN "iters" ELSE ""]

-----------------------------------------------------------------------------
(* Assembling, labeling and the snapshot document.                         *)

\* position of cluster cid in a list of cluster entries, 0 when absent
IndexOfCid(clusters, cid) ==
    IF \E i \in 1 .. Len(clusters) : clusters[i].id = cid
    THEN CHOOSE i \in 1 .. Len(clusters) : clusters[i].id = cid
    ELSE 0

RECURSIVE members_from(_, _, _, _)
members_from(labels, ids, idx, clusters) ==
    IF idx > Len(labels) THEN clusters
    ELSE IF labels[idx] = -1 THEN members_from(labels, ids, idx + 1, clusters)
    ELSE LET pos == IndexOfCid(clusters, labels[idx])
         IN  IF pos = 0
             THEN members_from(labels, ids, idx + 1,
                      Append(clusters, [id |-> labels[idx], members |-> <<ids[idx]>>,
                                        labeled |-> FALSE, label |-> <<>>,
                                        top_keywords |-> <<>>]))
             ELSE members_from(labels, ids, idx + 1,
                      [clusters EXCEPT ![pos].members = Append(@, ids[idx])])

\* the dict cid -> entry in insertion order; labeled is FALSE while the
\* entry has no 'label' and no 'top_keywords' key
_build_cluster_members(labels, ids) == members_from(labels, ids, 1, <<>>)

\* a fallback that leaves the label empty
Placeheld_blank(data) ==
    [data EXCEPT !.labeled = TRUE, !.label = <<>>, !.top_keywords = <<>>]

\* data['label'] = f"cluster_{cid}"; data['top_keywords'] = []
Placeheld(data) ==
    [data EXCEPT !.labeled = TRUE, !.label = PlaceholderLabel(data.id),
                 !.top_keywords = <<>>]

RECURSIVE normal_keywords(_, _)
\* strip, lower, drop empty, deduplicate in order, stop at max_kw
normal_keywords(kws, final_kws) ==
    IF kws = <<>> THEN final_kws
    ELSE LET k == lower(strip(Head(kws)))
         IN  IF strip(Head(kws)) = <<>> THEN normal_keywords(Tail(kws), final_kws)
             ELSE LET nxt == IF k \in Range(final_kws) THEN final_kws
                             ELSE Append(final_kws, k)
                  IN  IF Len(nxt) >= TOPIC_CLUSTERING_LABEL_MAX_KEYWORDS THEN nxt
                      ELSE normal_keywords(Tail(kws), nxt)

\* "Map results": one cluster of a chunk whose response parsed
labeled_from(data, parsed) ==
    IF data.id \in DOMAIN parsed
    THEN LET cobj == parsed[data.id]
         IN  [data EXCEPT
                !.labeled = TRUE,
                !.label = Slice(strip(IF cobj.label = <<>>
                                      THEN PlaceholderLabel(data.id)
                                      ELSE cobj.label), 0, 60),
                !.top_keywords = normal_keywords(cobj.keywords, <<>>)]
    ELSE Placeheld(data)

RECURSIVE llm_batches(_, _, _)
\* the loop over chunks of batch_size clusters; responses[k] answers chunk k
\* with kind "raise" (the request raised), "unparsed" (no parsed result) or
\* "ok" and parsed, a map cluster id -> [label, keywords].  A raise leaves
\* the loop for the handler that relabels every cluster.
llm_batches(clusters, start, responses) ==
    IF start >= Len(clusters) THEN clusters
    ELSE LET k == (start \div batch_size) + 1
             lo == start + 1
             hi == Min(start + batch_size, Len(clusters))
             r == responses[k]
         IN  IF r.kind = "raise"
             THEN [i \in 1 .. Len(clusters) |-> Placeheld(clusters[i])]
             ELSE llm_batches(
                      [i \in 1 .. Len(clusters) |->
                          IF i < lo \/ i > hi THEN clusters[i]
                          ELSE IF r.kind = "unparsed" THEN Placeheld(clusters[i])
                          ELSE labeled_from(clusters[i], r.parsed)],
                      start + batch_size, responses)

\* llm.client is FALSE when the import or the client construction raises
_label_clusters_with_llm_batch(clusters, llm) ==
    IF ~llm.client THEN [i \in 1 .. Len(clusters) |-> Placeheld(clusters[i])]
    ELSE llm_batches(clusters, 0, llm.responses)

label_clusters(clusters, api_key, llm) ==
    IF clusters = <<>> THEN <<>>
    ELSE IF ~api_key THEN [i \in 1 .. Len(clusters) |-> Placeheld(clusters[i])]
    ELSE _label_clusters_with_llm_batch(clusters, llm)

\* round(noise / total, 4) in units of 0.0001
Round4(noise, total) ==
    IF total = 0 THEN 0 ELSE (2 * 10000 * noise + total) \div (2 * total)

\* assignments that leave the noise points out
assignments_clustered(ids, labels) ==
    [vid \in {ids[i] : i \in {j \in 1 .. Len(ids) : labels[j] # -1}} |->
        labels[CHOOSE j \in 1 .. Len(ids) : ids[j] = vid]]

\* assignments of build_snapshot: a later duplicate id overwrites
assignments_of(ids, labels) ==
    [vid \in Range(ids) |->
        LET i == CHOOSE j \in 1 .. Len(ids) :
                     ids[j] = vid /\ \A k \in j + 1 .. Len(ids) : ids[k] # vid
        IN  IF i <= Len(labels) THEN labels[i] ELSE -1]

build_snapshot(ids, labels, metrics, params, labeled_clusters, now) ==
    [generated_at |-> now,
     params |-> params,
     total_videos |-> Len(ids),
     cluster_count |-> metrics.cluster_count,
     noise_ratio |-> Round4(metrics.noise, metrics.total),
     clusters |-> [i \in 1 .. Len(labeled_clusters) |->
                     LET data == labeled_clusters[i]
                     IN  [id |-> data.id,
                          label |-> IF data.labeled THEN data.label
                                    ELSE PlaceholderLabel(data.id),
                          size |-> Len(data.members),
                          top_keywords |-> IF data.labeled THEN data.top_keywords
                                           ELSE <<>>]],
     assignments |-> assignments_of(ids, labels),
     meta |-> now]

-----------------------------------------------------------------------------
(* The query layer.                                                        *)

\* c1 sorts strictly before c2 under the key get_topics uses for sort
key_before(c1, c2, sort) ==
    IF sort = "size_asc" THEN c1.size < c2.size
    ELSE IF sort = "alpha" THEN StrLess(lower(c1.label), lower(c2.label))
    ELSE IF sort = "alpha_desc" THEN StrLess(lower(c2.label), lower(c1.label))
    ELSE c1.size > c2.size

RECURSIVE insert_stable(_, _, _)
\* c placed behind every element that does not sort strictly after it
insert_stable(sorted, c, sort) ==
    IF sorted = <<>> THEN <<c>>
    ELSE IF key_before(c, Head(sorted), sort) THEN <<c>> \o sorted
    ELSE <<Head(sorted)>> \o insert_stable(Tail(sorted), c, sort)

RECURSIVE sort_from(_, _, _)
sort_from(clusters, sorted, sort) ==
    IF clusters = <<>> THEN sorted
    ELSE sort_from(Tail(clusters), insert_stable(sorted, Head(clusters), sort), sort)

\* list.sort(key=..., reverse=...): stable in both directions
list_sort(clusters, sort) == sort_from(clusters, <<>>, sort)

\* clusters[offset:] when offset is truthy
slice_offset(clusters, offset) ==
    IF offset = 0 THEN clusters
    ELSE IF offset > 0 THEN Slice(clusters, offset, Len(clusters))
    ELSE Slice(clusters, Max(0, Len(clusters) + offset), Len(clusters))

\* a slice that keeps the element at position limit as well
slice_limit_inclusive(clusters, limit) ==
    IF limit = NoLimit THEN clusters ELSE Slice(clusters, 0, Max(0, limit[1] + 1))

\* clusters[:limit] when limit is not None
slice_limit(clusters, limit) ==
    IF limit = NoLimit THEN clusters
    ELSE IF limit[1] >= 0 THEN Slice(clusters, 0, limit[1])
    ELSE Slice(clusters, 0, Max(0, Len(clusters) + limit[1]))

\* what get_topics returns for snapshot snap whose clusters list, sorted by
\* the call, reads as clusters at the time of the slicing
topics_result(snap, clusters, limit, offset) ==
    LET page == slice_limit(slice_offset(clusters, offset), limit)
    IN  [clusters |-> page,
         count |-> Len(page),
         total |-> Len(clusters),
         total_videos |-> snap.total_videos,
         generated_at |-> snap.generated_at,
         noise_ratio |-> snap.noise_ratio,
         cluster_count |-> snap.cluster_count]

\* get_topics without a snapshot
topics_empty == [clusters |-> <<>>, count |-> 0, total_videos |-> 0]

\* get_topics on one thread, with no other thread touching the snapshot
get_topics(snap, sort, limit, offset) ==
    IF snap = None THEN topics_empty
    ELSE topics_result(snap, list_sort(snap.clusters, sort), limit, offset)

\* a get_cluster that answers an id without members with an error
get_cluster_found(snap, clusters, cluster_id, stored) ==
    LET members == {vid \in DOMAIN snap.assignments :
                       snap.assignments[vid] = cluster_id /\ vid \in stored}
    IN  IF members = {} THEN [error |-> "not found"]
        ELSE [cluster |-> None, videos |-> members,
              count |-> Cardinality(members), cluster_id |-> cluster_id]

\* what get_cluster returns: the members are the assignment keys mapped to
\* cluster_id that the vector store still holds, in assignment order; clusters
\* is the snapshot's clusters list as it reads at the time of the call
get_cluster(snap, clusters, cluster_id, stored) ==
    LET members == {vid \in DOMAIN snap.assignments :
                       snap.assignments[vid] = cluster_id /\ vid \in stored}
        hits == {i \in 1 .. Len(clusters) : clusters[i].id = cluster_id}
    IN  [cluster |-> IF hits = {} THEN None
                     ELSE clusters[CHOOSE i \in hits : \A j \in hits : i <= j],
         videos |-> members,
         count |-> Cardinality(members),
         cluster_id |-> cluster_id]

cluster_error == [error |-> "no snapshot"]

-----------------------------------------------------------------------------
(* The snapshot store under concurrent rebuild requests (Spec).            *)
(*                                                                         *)
(* A request thread runs the route /topics/rebuild of src/app.py: it       *)
(* obtains the service from get_topic_clustering_service and calls         *)
(* rebuild(force) on it.  An action is one access to state that other      *)
(* threads or the environment share, with the local computation around it. *)
(* The search loop runs inside RbBuild on small collections; SpecSearch    *)
(* steps through it on large ones.                                         *)

\* the locals of a thread that serves no request
IdleThread ==
    [pc |-> "idle", kind |-> "rebuild", force |-> FALSE, sort |-> "", cid |-> 0,
     svc |-> 0, phase |-> "", snap |-> 0, doc |-> None, fd |-> "none",
     exc |-> FALSE, ran |-> FALSE, nr |-> None, before |-> None, after |-> {},
     cStart |-> 0, cEnd |-> 0, overlap |-> FALSE, result |-> None,
     empty |-> FALSE, total |-> -1]

\* the labels run_hdbscan gives the points of the small collections of Spec
StoreLabels == {0}
Labelings(n) == [1 .. n -> StoreLabels]

\* the snapshot rebuild builds from ids and the best state of the search
rebuilt(ids, best, api_key, llm, now) ==
    build_snapshot(ids, best.labels, best.metrics, best.params,
                   label_clusters(_build_cluster_members(best.labels, ids),
                                  api_key, llm),
                   now)

\* the document an earlier run of the program left on disk: it was built
\* when the collection held video 2 alone
OldSnapshot ==
    rebuilt(<<2>>, [labels |-> <<0>>, metrics |-> evaluate(<<0>>),
                    params |-> derive_params(1)], FALSE, None, 0)

RECURSIVE json_members(_)
\* the members "key": value of the JSON object written for a dict, one pair
\* each, by ascending key
json_members(d) ==
    IF DOMAIN d = {} THEN <<>>
    ELSE LET k == CHOOSE x \in DOMAIN d : \A y \in DOMAIN d : x <= y
         IN  <<<<k, d[k]>>>> \o json_members([x \in DOMAIN d \ {k} |-> d[x]])

\* the text json.dump writes for a snapshot: the dict assignments becomes
\* the member list of an object; numbers, strings and lists are written as
\* they are
json_dump(doc) == [doc EXCEPT !.assignments = json_members(@)]

\* a load that drops the members of the assignments object
json_load_unassigned(text) == [text EXCEPT !.assignments = <<>>]

\* the dict json.load builds from the text: an object becomes a dict in
\* which the last member of a key wins
json_load(text) ==
    [text EXCEPT !.assignments =
        LET ms == text.assignments
        IN  [k \in {ms[i][1] : i \in 1 .. Len(ms)} |->
                ms[CHOOSE i \in 1 .. Len(ms) :
                       /\ ms[i][1] = k
                       /\ \A j \in i + 1 .. Len(ms) : ms[j][1] # k][2]]]

\* json.dump(snapshot, f) into an empty file, and the file it leaves
FileOf(doc) == [exists |-> TRUE, data |-> <<json_dump(doc)>>]

\* json.load(f) succeeds on the file: an empty file raises
Parses(file) == file.exists /\ Len(file.data) = 1

\* the dict json.load(f) returns
Parsed(file) == json_load(file.data[1])

\* VectorDBService.count(): collection.count(), or 0 when that raises
count(failed) == IF failed THEN 0 ELSE Len(collection)

RECURSIVE load_embeddings_from(_, _, _, _)
\* load_embeddings, the loop "while offset < total": the retrieval of the
\* batch at offset failing breaks the loop, as a batch without ids does
load_embeddings_from(total, offset, ids, failing) ==
    IF offset >= total THEN ids
    ELSE IF offset = failing THEN ids
    ELSE LET limit == Min(CHROMA_BATCH_SIZE, total - offset)
             got_ids == Slice(collection, offset, offset + limit)
         IN  IF Len(got_ids) = 0 THEN ids
             ELSE load_embeddings_from(total, offset + Len(got_ids),
                                       ids \o got_ids, failing)

\* the ids load_embeddings returns; failing is the offset of the batch whose
\* retrieval raises, -1 for none
load_embeddings(total, failing) ==
    IF total = 0 THEN <<>> ELSE load_embeddings_from(total, 0, <<>>, failing)

\* the best states the search loop can end with over the labelings of n points
RECURSIVE search_results(_)
search_results(st) ==
    IF st.stop # "" THEN {st.best_state}
    ELSE UNION {search_results(search_step(st, l, evaluate(l))) :
                    l \in Labelings(st.n)}

\* a heap object: the dict and whether its clusters list is inside
\* list.sort(), where it reads as empty
Object(doc) == [doc |-> doc, sorting |-> FALSE]
clusters_now(ref) == IF heap[ref].sorting THEN <<>> ELSE heap[ref].doc.clusters

\* threads running the pipeline of rebuild: load, search, label, persist
PipelinePcs == {"rb_build", "sv_open", "sv_write", "sv_replace", "sv_cache",
                "sv_fin"}
InPipeline(t) == thr[t].pc \in PipelinePcs

\* an environment failure is injected
Inject == /\ faults < MaxFaults
          /\ faults' = faults + 1

StoreInit ==
    /\ collection = <<1>>
    /\ changes = 0
    /\ faults = 0
    /\ hdbscan \in BOOLEAN
    /\ singleton = 0
    /\ lock = <<>>
    /\ cache = <<>>
    /\ heap = <<>>
    /\ tmpFile = NoFile
    /\ snapFile \in {NoFile, FileOf(OldSnapshot)}
    /\ clock = 0
    /\ thr = [t \in Threads |-> IdleThread]

\* ---- the environment: ingestion changes the collection

AddVideo(v) ==
    /\ changes < MaxChanges
    /\ v \notin Range(collection)
    /\ collection' = Append(collection, v)
    /\ changes' = changes + 1
    /\ UNCHANGED <<srch, asm, qry, pre>>
    /\ UNCHANGED <<faults, hdbscan, singleton, lock, cache, heap, tmpFile,
                   snapFile, clock, thr>>

DeleteVideo(v) ==
    /\ changes < MaxChanges
    /\ v \in Range(collection)
    /\ collection' = SelectSeq(collection, LAMBDA x : x # v)
    /\ changes' = changes + 1
    /\ UNCHANGED <<srch, asm, qry, pre>>
    /\ UNCHANGED <<faults, hdbscan, singleton, lock, cache, heap, tmpFile,
                   snapFile, clock, thr>>

\* ---- the route /topics/rebuild

\* the calls of get_topics and get_cluster in progress
ReaderPcs == {"rd_set", "tp_sort", "tp_sorted", "tp_slice", "cl_body"}

\* overlap records, for a call of get_topics or get_cluster in progress, that
\* a rebuild pipeline ran at some moment of the call
Mark(f) ==
    LET busy == \E u \in DOMAIN f : f[u].pc \in PipelinePcs
    IN  [u \in DOMAIN f |->
            IF busy /\ f[u].pc \in ReaderPcs
            THEN [f[u] EXCEPT !.overlap = TRUE] ELSE f[u]]

Set(t, r) == thr' = Mark([thr EXCEPT ![t] = r])

\* the request of r ends with result
Finish(r, result) ==
    [IdleThread EXCEPT !.pc = "done", !.kind = r.kind, !.force = r.force,
                       !.sort = r.sort, !.cid = r.cid, !.svc = r.svc,
                       !.ran = r.ran, !.after = r.after,
                       !.cStart = r.cStart, !.cEnd = changes,
                       !.overlap = r.overlap, !.result = result]

\* "svc.rebuild(force=force)" on the instance the accessor returned; after
\* is the set of threads whose call of rebuild had returned by then
Call(r, s) ==
    [r EXCEPT !.svc = s, !.pc = "rb_lock", !.phase = "rb", !.snap = 0,
              !.doc = None, !.exc = FALSE, !.ran = FALSE, !.nr = None,
              !.before = None, !.empty = FALSE, !.total = -1, !.cStart = changes,
              !.after = {u \in DOMAIN thr : thr[u].pc = "done"}]

\* a request arrives; the threads take the requests in the order of their
\* numbers
StartRequest(t) ==
    /\ thr[t].pc = "idle"
    /\ \A u \in DOMAIN thr : u < t => thr[u].pc # "idle"
    /\ \E force \in BOOLEAN :
          Set(t, [IdleThread EXCEPT !.pc = "gs_check", !.force = force])
    /\ UNCHANGED <<srch, asm, qry, pre>>
    /\ UNCHANGED <<collection, changes, faults, hdbscan, singleton, lock, cache,
                   heap, tmpFile, snapFile, clock>>

\* ---- get_topic_clustering_service

\* "if _topic_service_singleton is None", and the return when it is not
GsCheck(t) ==
    /\ thr[t].pc = "gs_check"
    /\ Set(t, IF singleton = 0 THEN [thr[t] EXCEPT !.pc = "gs_new"]
              ELSE Call(thr[t], singleton))
    /\ UNCHANGED <<srch, asm, qry, pre>>
    /\ UNCHANGED <<collection, changes, faults, hdbscan, singleton, lock, cache,
                   heap, tmpFile, snapFile, clock>>

\* the VectorDBService and a new TopicClusteringService (its own lock, an
\* empty cache) are constructed and the global is assigned
GsNew(t) ==
    /\ thr[t].pc = "gs_new"
    /\ lock' = Append(lock, 0)
    /\ cache' = Append(cache, 0)
    /\ singleton' = Len(lock) + 1
    /\ Set(t, [thr[t] EXCEPT !.pc = "ls_read", !.phase = "gs"])
    /\ UNCHANGED <<srch, asm, qry, pre>>
    /\ UNCHANGED <<collection, changes, faults, hdbscan, heap, tmpFile, snapFile,
                   clock>>

\* ---- load_snapshot and needs_rebuild

\* the instance a call is made on: the startup path reads the global for each
\* of its calls, the route holds the instance the accessor returned
Self(r) == IF r.phase = "gs" THEN singleton ELSE r.svc

\* needs_rebuild returns res to its caller: the startup path rebuilds with
\* force=True or returns the global to the route; rebuild runs the pipeline
\* or returns what load_snapshot gives it
AfterNeeds(r, res) ==
    IF r.phase = "gs"
    THEN IF res THEN [r EXCEPT !.pc = "rb_lock"] ELSE Call(r, singleton)
    ELSE IF res \/ cache[r.svc] = 0 THEN [r EXCEPT !.pc = "rb_build"]
    ELSE [r EXCEPT !.snap = cache[r.svc], !.pc = "rb_ret"]

\* needs_rebuild without a snapshot
NoSnapshot == [snap |-> FALSE, snap_total |-> 0, count |-> 0,
               same_ids |-> FALSE, result |-> TRUE]

\* load_snapshot: the cache is returned when set; else the file is read and
\* parsed
LsRead(t) ==
    LET r == [thr[t] EXCEPT !.svc = Self(thr[t])]
    IN  /\ r.pc = "ls_read"
        /\ IF cache[r.svc] # 0
           THEN /\ Set(t, [r EXCEPT !.snap = cache[r.svc], !.pc = "nr_count"])
                /\ UNCHANGED heap
           ELSE IF Parses(snapFile)
           THEN /\ heap' = Append(heap, Object(Parsed(snapFile)))
                /\ Set(t, [r EXCEPT !.snap = Len(heap) + 1, !.pc = "ls_set"])
           ELSE /\ Set(t, AfterNeeds([r EXCEPT !.nr = NoSnapshot], TRUE))
                /\ UNCHANGED heap
        /\ UNCHANGED <<srch, asm, qry, pre>>
        /\ UNCHANGED <<collection, changes, faults, hdbscan, singleton, lock,
                       cache, tmpFile, snapFile, clock>>

\* load_snapshot: "self._snapshot_cache = data"
LsSet(t) ==
    LET r == thr[t]
    IN  /\ r.pc = "ls_set"
        /\ cache' = [cache EXCEPT ![r.svc] = r.snap]
        /\ Set(t, [r EXCEPT !.pc = "nr_count"])
        /\ UNCHANGED <<srch, asm, qry, pre>>
        /\ UNCHANGED <<collection, changes, faults, hdbscan, singleton, lock,
                       heap, tmpFile, snapFile, clock>>

\* a test that sees growth only
needs_rebuild_grown(snap_total, total_videos) == snap_total < total_videos

\* needs_rebuild with a snapshot: count() is compared with total_videos
needs_rebuild(snap_total, total_videos) == snap_total # total_videos

\* needs_rebuild: "total_videos = self.vectordb.count()" and the comparison
NrCount(t) ==
    LET r == thr[t]
    IN  /\ r.pc = "nr_count"
        /\ \E failed \in BOOLEAN :
              /\ IF failed THEN Inject ELSE UNCHANGED faults
              /\ LET snap == heap[r.snap].doc
                     res == needs_rebuild(snap.total_videos, count(failed))
                     seen == [snap |-> TRUE,
                              snap_total |-> snap.total_videos,
                              count |-> count(failed),
                              same_ids |-> DOMAIN snap.assignments = Range(collection),
                              result |-> res]
                 IN  Set(t, AfterNeeds([r EXCEPT !.nr = seen], res))
        /\ UNCHANGED <<srch, asm, qry, pre>>
        /\ UNCHANGED <<collection, changes, hdbscan, singleton, lock, cache, heap,
                       tmpFile, snapFile, clock>>

\* ---- rebuild

\* a rebuild that enters without waiting for the lock
RbLock_free(t) ==
    LET r == [thr[t] EXCEPT !.svc = Self(thr[t])]
    IN  /\ r.pc = "rb_lock"
        /\ lock' = [lock EXCEPT ![r.svc] = t]
        /\ Set(t, IF r.force \/ r.phase = "gs" THEN [r EXCEPT !.pc = "rb_build"]
                  ELSE [r EXCEPT !.pc = "ls_read"])
        /\ UNCHANGED <<srch, asm, qry, pre>>
        /\ UNCHANGED <<collection, changes, faults, hdbscan, singleton, cache,
                       heap, tmpFile, snapFile, clock>>

\* "with self._lock", then the test of force
RbLock(t) ==
    LET r == [thr[t] EXCEPT !.svc = Self(thr[t])]
    IN  /\ r.pc = "rb_lock"
        /\ lock[r.svc] = 0
        /\ lock' = [lock EXCEPT ![r.svc] = t]
        /\ Set(t, IF r.force \/ r.phase = "gs" THEN [r EXCEPT !.pc = "rb_build"]
                  ELSE [r EXCEPT !.pc = "ls_read"])
        /\ UNCHANGED <<srch, asm, qry, pre>>
        /\ UNCHANGED <<collection, changes, faults, hdbscan, singleton, cache,
                       heap, tmpFile, snapFile, clock>>

\* a run_hdbscan that works without the package
run_hdbscan_unguarded(available, n) == FALSE

\* run_hdbscan raises RuntimeError: "if hdbscan is None" is tested first,
\* before the shortcut "if X.size == 0" for n = 0 points
run_hdbscan_raises(available, n) == ~available

\* load_embeddings (count() or the retrieval of the first batch may fail),
\* derive_params, preprocess, the search loop, the labeling and
\* build_snapshot; run_hdbscan raises when the package is missing; total
\* keeps what count() answered, and empty that it answered 0 for an empty
\* collection
RbBuild(t) ==
    LET r == thr[t]
    IN  /\ r.pc = "rb_build"
        /\ \E f \in {"none", "count", "get"} :
              LET total == count(f = "count")
                  ids == load_embeddings(total, IF f = "get" THEN 0 ELSE -1)
                  empty == f = "none" /\ total = 0
              IN  /\ f = "get" => total > 0
                  /\ IF f = "none" THEN UNCHANGED faults ELSE Inject
                  /\ IF run_hdbscan_raises(hdbscan, Len(ids))
                     THEN /\ Set(t, [r EXCEPT !.ran = TRUE, !.exc = TRUE,
                                              !.empty = empty, !.total = total,
                                              !.pc = "rb_ret"])
                          /\ UNCHANGED clock
                     ELSE \E best \in search_results(search_init(Len(ids))) :
                             LET doc == rebuilt(ids, best, FALSE, None, clock + 1)
                             IN  /\ clock' = clock + 1
                                 /\ Set(t, [r EXCEPT !.ran = TRUE, !.doc = doc,
                                                     !.empty = empty, !.total = total,
                                                     !.pc = "sv_open"])
        /\ UNCHANGED <<srch, asm, qry, pre>>
        /\ UNCHANGED <<collection, changes, hdbscan, singleton, lock, cache, heap,
                       tmpFile, snapFile>>

\* ---- save_snapshot_atomic

\* the dict the cache of instance s refers to, None when it is unset
CacheDoc(s) == IF cache[s] = 0 THEN None ELSE heap[cache[s]].doc

\* "open(tmp_path, 'w')" creates the temp file or truncates the one there;
\* before keeps what the snapshot path and the cache held at the call
SvOpen(t) ==
    LET r == [thr[t] EXCEPT !.before = [file |-> snapFile,
                                        cache |-> CacheDoc(thr[t].svc)]]
    IN  /\ thr[t].pc = "sv_open"
        /\ \/ /\ UNCHANGED faults
              /\ tmpFile' = [exists |-> TRUE, data |-> <<>>]
              /\ Set(t, [r EXCEPT !.fd = "tmp", !.pc = "sv_write"])
           \/ /\ Inject
              /\ UNCHANGED tmpFile
              /\ Set(t, [r EXCEPT !.exc = TRUE, !.pc = "sv_fin"])
        /\ UNCHANGED <<srch, asm, qry, pre>>
        /\ UNCHANGED <<collection, changes, hdbscan, singleton, lock, cache, heap,
                       snapFile, clock>>

\* json.dump and the close of the file: the document reaches the file the
\* descriptor refers to; or the write raises
SvWrite(t) ==
    LET r == thr[t]
    IN  /\ r.pc = "sv_write"
        /\ \/ /\ UNCHANGED faults
              /\ Set(t, [r EXCEPT !.fd = "none", !.pc = "sv_replace"])
              /\ IF r.fd = "tmp"
                 THEN /\ tmpFile' = FileOf(r.doc)
                      /\ UNCHANGED snapFile
                 ELSE IF r.fd = "snap"
                 THEN /\ snapFile' = FileOf(r.doc)
                      /\ UNCHANGED tmpFile
                 ELSE UNCHANGED <<tmpFile, snapFile>>
           \/ /\ Inject
              /\ Set(t, [r EXCEPT !.exc = TRUE, !.fd = "none", !.pc = "sv_fin"])
              /\ UNCHANGED <<tmpFile, snapFile>>
        /\ UNCHANGED <<srch, asm, qry, pre>>
        /\ UNCHANGED <<collection, changes, hdbscan, singleton, lock, cache, heap,
                       clock>>

\* where the descriptors of the other threads point after a rename of the
\* temp file over the snapshot file (moved) or its removal
Repoint(f, t, moved) ==
    [u \in DOMAIN f |->
        IF u = t THEN f[u]
        ELSE IF f[u].fd = "tmp"
        THEN [f[u] EXCEPT !.fd = IF moved THEN "snap" ELSE "orphan"]
        ELSE IF f[u].fd = "snap" /\ moved THEN [f[u] EXCEPT !.fd = "orphan"]
        ELSE f[u]]

\* "os.replace(tmp_path, self.snapshot_path)"
SvReplace(t) ==
    LET r == thr[t]
    IN  /\ r.pc = "sv_replace"
        /\ \/ /\ tmpFile.exists
              /\ UNCHANGED faults
              /\ snapFile' = tmpFile
              /\ tmpFile' = NoFile
              /\ thr' = Mark(Repoint([thr EXCEPT ![t] = [r EXCEPT !.pc = "sv_cache"]],
                                     t, TRUE))
           \/ /\ ~tmpFile.exists
              /\ UNCHANGED <<faults, tmpFile, snapFile>>
              /\ Set(t, [r EXCEPT !.exc = TRUE, !.pc = "sv_fin"])
           \/ /\ tmpFile.exists
              /\ Inject
              /\ UNCHANGED <<tmpFile, snapFile>>
              /\ Set(t, [r EXCEPT !.exc = TRUE, !.pc = "sv_fin"])
        /\ UNCHANGED <<srch, asm, qry, pre>>
        /\ UNCHANGED <<collection, changes, hdbscan, singleton, lock, cache, heap,
                       clock>>

\* "self._snapshot_cache = snapshot"
SvCache(t) ==
    LET r == thr[t]
    IN  /\ r.pc = "sv_cache"
        /\ heap' = Append(heap, Object(r.doc))
        /\ cache' = [cache EXCEPT ![r.svc] = Len(heap) + 1]
        /\ Set(t, [r EXCEPT !.snap = Len(heap) + 1, !.pc = "sv_fin"])
        /\ UNCHANGED <<srch, asm, qry, pre>>
        /\ UNCHANGED <<collection, changes, faults, hdbscan, singleton, lock,
                       tmpFile, snapFile, clock>>

\* "finally": a temp file found at the path is removed, unless os.remove raises
SvFin(t) ==
    LET r == thr[t]
    IN  /\ r.pc = "sv_fin"
        /\ \/ /\ tmpFile.exists
              /\ UNCHANGED faults
              /\ tmpFile' = NoFile
              /\ thr' = Mark(Repoint([thr EXCEPT ![t] = [r EXCEPT !.pc = "rb_ret"]],
                                     t, FALSE))
           \/ /\ tmpFile.exists
              /\ Inject
              /\ UNCHANGED tmpFile
              /\ Set(t, [r EXCEPT !.pc = "rb_ret"])
           \/ /\ ~tmpFile.exists
              /\ UNCHANGED <<faults, tmpFile>>
              /\ Set(t, [r EXCEPT !.pc = "rb_ret"])
        /\ UNCHANGED <<srch, asm, qry, pre>>
        /\ UNCHANGED <<collection, changes, hdbscan, singleton, lock, cache, heap,
                       snapFile, clock>>

\* rebuild returns the snapshot or raises, and the lock is released; the
\* startup path swallows the exception and returns the global to the route
RbRet(t) ==
    LET r == thr[t]
    IN  /\ r.pc = "rb_ret"
        /\ lock' = [lock EXCEPT ![r.svc] = 0]
        /\ Set(t, IF r.phase = "gs" THEN Call(r, singleton)
                  ELSE Finish(r, IF r.exc THEN [error |-> "exception"]
                                 ELSE [snapshot |-> r.snap]))
        /\ UNCHANGED <<srch, asm, qry, pre>>
        /\ UNCHANGED <<collection, changes, faults, hdbscan, singleton, cache,
                       heap, tmpFile, snapFile, clock>>

\* ---- the specification of the store

Off == [pc |-> "off"]

Init ==
    /\ StoreInit
    /\ srch = Off
    /\ asm = Off
    /\ qry = Off
    /\ pre = Off

Next ==
    \/ \E v \in VideoIds : AddVideo(v)
    \/ \E v \in VideoIds : DeleteVideo(v)
    \/ \E t \in Threads : StartRequest(t)
    \/ \E t \in Threads : GsCheck(t)
    \/ \E t \in Threads : GsNew(t)
    \/ \E t \in Threads : LsRead(t)
    \/ \E t \in Threads : LsSet(t)
    \/ \E t \in Threads : NrCount(t)
    \/ \E t \in Threads : RbLock(t)
    \/ \E t \in Threads : RbBuild(t)
    \/ \E t \in Threads : SvOpen(t)
    \/ \E t \in Threads : SvWrite(t)
    \/ \E t \in Threads : SvReplace(t)
    \/ \E t \in Threads : SvCache(t)
    \/ \E t \in Threads : SvFin(t)
    \/ \E t \in Threads : RbRet(t)

Spec == Init /\ [][Next]_vars

-----------------------------------------------------------------------------
(* The lock-free readers beside a rebuild (SpecReaders).                   *)
(*                                                                         *)
(* The service is up; its cache holds the snapshot of an earlier rebuild,  *)
(* or no snapshot was ever built.  Thread 3 serves POST /topics/rebuild?force=true with the      *)
(* actions of Spec; threads 1 and 2 serve /topics and /topics/<id>.  The   *)
(* readers take no lock: a step of get_topics is one access to the cached  *)
(* dict, which all the threads share.                                      *)

ReaderThreads == {1, 2, 3}
ReaderSorts == {"size_desc", "size_asc"}
ReaderClusterIds == {0, 1, 2}

\* load_snapshot as get_topics and get_cluster call it: the cache when it is
\* set; else the parsed file, which RdSet puts into the cache; else None, and
\* the call returns missing
RdLoad(t, r, next, missing) ==
    IF cache[r.svc] # 0
    THEN /\ Set(t, [r EXCEPT !.snap = cache[r.svc], !.pc = next])
         /\ UNCHANGED heap
    ELSE IF Parses(snapFile)
    THEN /\ heap' = Append(heap, Object(Parsed(snapFile)))
         /\ Set(t, [r EXCEPT !.snap = Len(heap) + 1, !.pc = "rd_set"])
    ELSE /\ Set(t, Finish(r, missing))
         /\ UNCHANGED heap

\* load_snapshot: "self._snapshot_cache = data"
RdSet(t) ==
    LET r == thr[t]
    IN  /\ r.pc = "rd_set"
        /\ cache' = [cache EXCEPT ![r.svc] = r.snap]
        /\ Set(t, [r EXCEPT !.pc = IF r.kind = "topics" THEN "tp_sort"
                                   ELSE "cl_body"])
        /\ UNCHANGED <<srch, asm, qry, pre>>
        /\ UNCHANGED <<collection, changes, faults, hdbscan, singleton, lock,
                       heap, tmpFile, snapFile, clock>>

\* get_topics: get_topic_clustering_service returns the instance, and
\* load_snapshot the snapshot or None
TpLoad(t) ==
    /\ thr[t].pc = "idle"
    /\ singleton # 0
    /\ \E sort \in ReaderSorts :
          RdLoad(t, [thr[t] EXCEPT !.kind = "topics", !.sort = sort,
                                  !.svc = singleton],
                 "tp_sort", topics_empty)
    /\ UNCHANGED <<srch, asm, qry, pre>>
    /\ UNCHANGED <<collection, changes, faults, hdbscan, singleton, lock, cache,
                   tmpFile, snapFile, clock>>

\* "clusters.sort(...)" begins: the list reads as empty while the keys are
\* computed and the elements merged.  The sort of a list that reads as empty
\* is over at once.
TpSort(t) ==
    LET r == thr[t]
    IN  /\ r.pc = "tp_sort"
        /\ IF clusters_now(r.snap) = <<>>
           THEN /\ Set(t, [r EXCEPT !.pc = "tp_slice"])
                /\ UNCHANGED heap
           ELSE /\ heap' = [heap EXCEPT ![r.snap].sorting = TRUE]
                /\ Set(t, [r EXCEPT !.pc = "tp_sorted"])
        /\ UNCHANGED <<srch, asm, qry, pre>>
        /\ UNCHANGED <<collection, changes, faults, hdbscan, singleton, lock,
                       cache, tmpFile, snapFile, clock>>

\* "clusters.sort(...)" ends: the list holds its elements in the new order
TpSorted(t) ==
    LET r == thr[t]
    IN  /\ r.pc = "tp_sorted"
        /\ heap' = [heap EXCEPT ![r.snap] =
                       Object([@.doc EXCEPT !.clusters = list_sort(@, r.sort)])]
        /\ Set(t, [r EXCEPT !.pc = "tp_slice"])
        /\ UNCHANGED <<srch, asm, qry, pre>>
        /\ UNCHANGED <<collection, changes, faults, hdbscan, singleton, lock,
                       cache, tmpFile, snapFile, clock>>

\* "total = len(clusters)", the slices and the returned dict (the route
\* passes the defaults limit=None, offset=0)
TpSlice(t) ==
    LET r == thr[t]
    IN  /\ r.pc = "tp_slice"
        /\ Set(t, Finish(r, topics_result(heap[r.snap].doc, clusters_now(r.snap),
                                          NoLimit, 0)))
        /\ UNCHANGED <<srch, asm, qry, pre>>
        /\ UNCHANGED <<collection, changes, faults, hdbscan, singleton, lock,
                       cache, heap, tmpFile, snapFile, clock>>

\* get_cluster: get_topic_clustering_service returns the instance, and
\* load_snapshot the snapshot or None
ClLoad(t) ==
    /\ thr[t].pc = "idle"
    /\ singleton # 0
    /\ \E cid \in ReaderClusterIds :
          RdLoad(t, [thr[t] EXCEPT !.kind = "cluster", !.cid = cid,
                                  !.svc = singleton],
                 "cl_body", cluster_error)
    /\ UNCHANGED <<srch, asm, qry, pre>>
    /\ UNCHANGED <<collection, changes, faults, hdbscan, singleton, lock, cache,
                   tmpFile, snapFile, clock>>

\* get_cluster: the members, their items and the scan of the clusters list
ClBody(t) ==
    LET r == thr[t]
    IN  /\ r.pc = "cl_body"
        /\ Set(t, Finish(r, get_cluster(heap[r.snap].doc, clusters_now(r.snap),
                                        r.cid, Range(collection))))
        /\ UNCHANGED <<srch, asm, qry, pre>>
        /\ UNCHANGED <<collection, changes, faults, hdbscan, singleton, lock,
                       cache, heap, tmpFile, snapFile, clock>>

\* the snapshot of the earlier rebuild: videos 2 and 3 in one cluster,
\* video 1 in another
PreviousSnapshot ==
    rebuilt(<<1, 2, 3>>, [labels |-> <<0, 1, 1>>, metrics |-> evaluate(<<0, 1, 1>>),
                          params |-> derive_params(3)], FALSE, None, 1)

InitReaders ==
    /\ collection = <<1, 2, 3>>
    /\ changes = MaxChanges
    /\ faults = MaxFaults
    /\ singleton = 1
    /\ lock = <<0>>
    /\ tmpFile = NoFile
    /\ \/ /\ hdbscan = TRUE
          /\ cache = <<1>>
          /\ heap = <<Object(PreviousSnapshot)>>
          /\ snapFile = FileOf(PreviousSnapshot)
          /\ clock = 1
       \/ /\ hdbscan \in BOOLEAN
          /\ cache = <<0>>
          /\ heap = <<>>
          /\ snapFile = NoFile
          /\ clock = 0
    /\ thr = [t \in ReaderThreads |->
                 IF t = 3
                 THEN [IdleThread EXCEPT !.pc = "rb_lock", !.force = TRUE,
                                         !.svc = 1, !.phase = "rb"]
                 ELSE IdleThread]
    /\ srch = Off
    /\ asm = Off
    /\ qry = Off
    /\ pre = Off

NextReaders ==
    \/ \E t \in ReaderThreads : TpLoad(t)
    \/ \E t \in ReaderThreads : RdSet(t)
    \/ \E t \in ReaderThreads : TpSort(t)
    \/ \E t \in ReaderThreads : TpSorted(t)
    \/ \E t \in ReaderThreads : TpSlice(t)
    \/ \E t \in ReaderThreads : ClLoad(t)
    \/ \E t \in ReaderThreads : ClBody(t)
    \/ \E t \in ReaderThreads : RbLock(t)
    \/ \E t \in ReaderThreads : RbBuild(t)
    \/ \E t \in ReaderThreads : SvOpen(t)
    \/ \E t \in ReaderThreads : SvWrite(t)
    \/ \E t \in ReaderThreads : SvReplace(t)
    \/ \E t \in ReaderThreads : SvCache(t)
    \/ \E t \in ReaderThreads : SvFin(t)
    \/ \E t \in ReaderThreads : RbRet(t)

SpecReaders == InitReaders /\ [][NextReaders]_vars

-----------------------------------------------------------------------------
(* Properties of the store.                                                *)

\* C1: every call of needs_rebuild that finds a snapshot returns True exactly
\* when the snapshot's total_videos differs from what count() returned to it
NeedsRebuildIffCountDiffers ==
    \A t \in DOMAIN thr :
        (thr[t].nr # None /\ thr[t].nr.snap)
            => (thr[t].nr.result <=> thr[t].nr.snap_total # thr[t].nr.count)

\* C1 (case): needs_rebuild returned False at equal counts although the
\* snapshot's ids were not the ids of the collection
FreshAtChangedIds ==
    \E t \in DOMAIN thr :
        /\ thr[t].nr # None
        /\ thr[t].nr.snap
        /\ ~thr[t].nr.result
        /\ ~thr[t].nr.same_ids

\* C2: a call rebuild(force=False) made after a call rebuild(force=False)
\* returned a snapshot, with no change to the collection from the start of
\* the first call to the end of the second, does not run the pipeline
SecondRebuildIsNoOp ==
    \A t, u \in DOMAIN thr :
        (/\ thr[u].pc = "done" /\ thr[u].kind = "rebuild" /\ ~thr[u].force
         /\ t \in thr[u].after
         /\ thr[t].kind = "rebuild" /\ ~thr[t].force
         /\ thr[t].result # [error |-> "exception"]
         /\ thr[u].result # [error |-> "exception"]
         /\ thr[t].cStart = thr[u].cEnd)
            => ~thr[u].ran

\* C3: at most one thread is inside the pipeline of rebuild
AtMostOneRebuild == Cardinality({t \in DOMAIN thr : InPipeline(t)}) <= 1

\* C4: a call of get_topics or get_cluster that overlapped a rebuild returns
\* what the call returns on one of the snapshots, every field from that one
ReadObservesOneSnapshot ==
    \A u \in DOMAIN thr :
        (thr[u].pc = "done" /\ thr[u].overlap)
            => \E i \in 1 .. Len(heap) :
                  thr[u].result =
                      IF thr[u].kind = "topics"
                      THEN get_topics(heap[i].doc, thr[u].sort, NoLimit, 0)
                      ELSE get_cluster(heap[i].doc, heap[i].doc.clusters,
                                       thr[u].cid, Range(collection))

\* C5: the snapshot path never holds anything but a complete document; a
\* thread in save_snapshot_atomic does not find the cache switched to its new
\* snapshot before its rename; after a failed write or rename neither the
\* file nor the cache holds the new snapshot, and no temp file is left
\* unless another save is under way
SaveIsAtomic ==
    /\ snapFile.exists => Parses(snapFile)
    /\ \A t \in DOMAIN thr :
          LET r == thr[t]
          IN  /\ r.pc \in {"sv_write", "sv_replace"} => CacheDoc(r.svc) # r.doc
              /\ (r.pc = "rb_ret" /\ r.exc /\ r.before # None)
                  => /\ snapFile # FileOf(r.doc)
                     /\ CacheDoc(r.svc) # r.doc
                     /\ tmpFile.exists =>
                            \E u \in DOMAIN thr \ {t} :
                                thr[u].pc \in {"sv_write", "sv_replace", "sv_fin"}

\* C14: a rebuild that finds the collection empty (count() == 0) raises
\* nothing before the save begins, saves a snapshot with total_videos 0,
\* cluster_count 0, no cluster and no assignment, and once it has returned
\* the snapshot, needs_rebuild is False while the collection stays empty
EmptyCollectionRebuilds ==
    \A t \in Threads :
        LET r == thr[t]
        IN  (r.ran /\ r.empty) =>
              /\ (r.pc = "rb_ret" /\ r.exc) => r.before # None
              /\ r.pc \in {"sv_open", "sv_write", "sv_replace", "sv_cache"} =>
                    /\ r.doc.total_videos = 0
                    /\ r.doc.cluster_count = 0
                    /\ r.doc.clusters = <<>>
                    /\ DOMAIN r.doc.assignments = {}
              /\ (r.pc = "rb_ret" /\ ~r.exc /\ Len(collection) = 0) =>
                    /\ CacheDoc(r.svc) # None
                    /\ ~needs_rebuild(CacheDoc(r.svc).total_videos, count(FALSE))

\* C14 (case): a rebuild of the empty collection saved its snapshot
EmptySnapshotSaved ==
    \E t \in Threads :
        /\ thr[t].ran /\ thr[t].empty /\ thr[t].pc = "rb_ret" /\ ~thr[t].exc
        /\ Len(collection) = 0

\* C15: without the hdbscan package, a rebuild that reaches the pipeline
\* ends with the exception at its first clustering run and the exception
\* reaches the caller of the route; no step writes the snapshot file or the
\* temp file, and a cache changes only when load_snapshot sets it to the
\* document of the file, from unset or from that same document
UnavailableRebuildFails ==
    /\ [](~hdbscan =>
            \A t \in Threads :
                /\ thr[t].ran /\ thr[t].pc # "done"
                     => thr[t].pc = "rb_ret" /\ thr[t].exc /\ thr[t].doc = None
                /\ (thr[t].ran /\ thr[t].pc = "done" /\ thr[t].kind = "rebuild")
                     => thr[t].result = [error |-> "exception"])
    /\ [][~hdbscan =>
            /\ snapFile' = snapFile
            /\ tmpFile' = tmpFile
            /\ Len(cache') >= Len(cache)
            /\ \A s \in 1 .. Len(cache') :
                  IF s > Len(cache) THEN cache'[s] = 0
                  ELSE \/ cache'[s] = cache[s]
                       \/ /\ Parses(snapFile)
                          /\ heap'[cache'[s]].doc = Parsed(snapFile)
                          /\ \/ cache[s] = 0
                             \/ heap[cache[s]].doc = Parsed(snapFile)]_vars

\* C15 (case): with a snapshot on disk and no hdbscan, a rebuild that ran
\* the pipeline has answered its caller with the error
UnavailableRebuildAnswered ==
    /\ ~hdbscan
    /\ snapFile.exists
    /\ \E t \in Threads :
          /\ thr[t].pc = "done" /\ thr[t].ran
          /\ thr[t].result = [error |-> "exception"]

\* a step of get_topics or get_cluster
ReaderStep ==
    \E t \in ReaderThreads :
        /\ thr'[t].pc # thr[t].pc
        /\ \/ thr[t].pc \in ReaderPcs
           \/ thr[t].pc = "idle" /\ thr'[t].kind \in {"topics", "cluster"}

\* C11: a step of get_topics or get_cluster brings no thread into the
\* rebuild pipeline, writes neither the snapshot file nor the temp file,
\* and leaves every cache that holds a snapshot with the same dict, whose
\* content, the order of its clusters list included, is as before
ReadersChangeNothing ==
    [][ReaderStep =>
          /\ \A u \in ReaderThreads :
                thr'[u].pc \in PipelinePcs => thr[u].pc \in PipelinePcs
          /\ snapFile' = snapFile
          /\ tmpFile' = tmpFile
          /\ \A s \in 1 .. Len(cache) :
                cache[s] # 0 =>
                    /\ cache'[s] = cache[s]
                    /\ heap'[cache[s]].doc = heap[cache[s]].doc]_vars

\* C12: a call of get_topics or get_cluster that finds no snapshot, neither
\* in the cache nor in a readable file, returns a result that carries the
\* error "no snapshot"
NoSnapshotIsReported ==
    [][\A t \in ReaderThreads :
          (/\ thr[t].pc = "idle" /\ thr'[t].pc = "done"
           /\ thr'[t].kind \in {"topics", "cluster"}
           /\ CacheDoc(singleton) = None /\ ~Parses(snapFile))
          => /\ "error" \in DOMAIN thr'[t].result
             /\ thr'[t].result.error = "no snapshot"]_vars

\* C13: get_cluster on a snapshot in which no assignment maps to the id
\* returns count 0, no video and no cluster record, and no error
UnassignedClusterIsEmpty ==
    [][\A t \in ReaderThreads :
          (/\ thr[t].pc = "cl_body" /\ thr'[t].pc = "done"
           /\ \A v \in DOMAIN heap[thr[t].snap].doc.assignments :
                 heap[thr[t].snap].doc.assignments[v] # thr[t].cid)
          => thr'[t].result = [cluster |-> None, videos |-> {}, count |-> 0,
                               cluster_id |-> thr[t].cid]]_vars

\* C13 (case): get_cluster(2) returned on a snapshot with the clusters 0
\* and 1
UnassignedClusterAsked ==
    \E t \in ReaderThreads :
        /\ thr[t].pc = "done" /\ thr[t].kind = "cluster" /\ thr[t].cid = 2
        /\ thr[t].result = [cluster |-> None, videos |-> {}, count |-> 0,
                            cluster_id |-> 2]

\* C27: a call of get_topics during which no rebuild ran, and beside which
\* the other calls of get_topics ask for other sort orders, returns what
\* get_topics returns for its own sort order on a snapshot: the clusters in
\* the order it asked for, and their number as total
TopicsInRequestedOrder ==
    \A u \in ReaderThreads :
        (/\ thr[u].pc = "done" /\ thr[u].kind = "topics" /\ ~thr[u].overlap
         /\ thr[u].result # topics_empty
         /\ \A v \in ReaderThreads \ {u} :
               (thr[v].kind = "topics" /\ thr[v].pc # "idle")
                   => thr[v].sort # thr[u].sort)
            => \E i \in 1 .. Len(heap) :
                  thr[u].result = get_topics(heap[i].doc, thr[u].sort, NoLimit, 0)

\* C29: the snapshot a rebuild is about to persist has total_videos and as
\* many assignments as the count() its load_embeddings observed
PersistedCoversCollection ==
    \A t \in DOMAIN thr :
        LET r == thr[t]
        IN  (r.pc \in {"sv_open", "sv_write", "sv_replace", "sv_cache"}) =>
                /\ r.doc.total_videos = r.total
                /\ Cardinality(DOMAIN r.doc.assignments) = r.total

\* load_snapshot of the service would return a snapshot: the cache of the
\* global instance is set, or the file parses
Available == Parses(snapFile) \/ (singleton # 0 /\ cache[singleton] # 0)

\* C25: a snapshot becomes available only by the rename that ends the
\* persisting of a rebuild; a change of the collection touches neither the
\* file nor a cache; once available a snapshot stays available; and a
\* rebuild that raised in its save, no other rebuild having run, leaves the
\* file as it was and the cache as it was or filled from that file
SnapshotLifecycle ==
    /\ [][/\ (~Available /\ Available') =>
                \E t \in DOMAIN thr :
                    thr[t].pc = "sv_replace" /\ thr'[t].pc = "sv_cache"
          /\ collection' # collection => (snapFile' = snapFile /\ cache' = cache)
          /\ Available => Available']_vars
    /\ [](\A t \in DOMAIN thr :
             (thr[t].pc = "rb_ret" /\ thr[t].exc /\ thr[t].before # None
                 /\ \A u \in DOMAIN thr \ {t} : ~thr[u].ran)
                => /\ snapFile = thr[t].before.file
                   /\ \/ CacheDoc(thr[t].svc) = thr[t].before.cache
                      \/ /\ thr[t].before.cache = None
                         /\ Parses(snapFile)
                         /\ CacheDoc(thr[t].svc) = Parsed(snapFile))

-----------------------------------------------------------------------------
(* Concurrent POST /topics/rebuild on one service (SpecCallers).           *)
(*                                                                         *)
(* The accessor has returned the service before; the store is Empty (no    *)
(* file, no cache) or Stale (the snapshot of a smaller collection on disk, *)
(* which the first load_snapshot caches).  The collection does not change  *)
(* and the environment does not fail.  Three requests call rebuild, with   *)
(* the actions of Spec.                                                    *)

CallerThreads == {1, 2, 3}

InitCallers ==
    /\ collection \in {<<1, 2>>, <<2, 3, 1>>}
    /\ changes = MaxChanges
    /\ faults = MaxFaults
    /\ hdbscan = TRUE
    /\ singleton = 1
    /\ lock = <<0>>
    /\ tmpFile = NoFile
    /\ clock = 0
    /\ cache = <<0>>
    /\ heap = <<>>
    /\ snapFile \in {NoFile, FileOf(OldSnapshot)}
    /\ thr = [t \in CallerThreads |-> IdleThread]
    /\ srch = Off
    /\ asm = Off
    /\ qry = Off
    /\ pre = Off

NextCallers ==
    \/ \E t \in CallerThreads : StartRequest(t)
    \/ \E t \in CallerThreads : GsCheck(t)
    \/ \E t \in CallerThreads : LsRead(t)
    \/ \E t \in CallerThreads : LsSet(t)
    \/ \E t \in CallerThreads : NrCount(t)
    \/ \E t \in CallerThreads : RbLock(t)
    \/ \E t \in CallerThreads : RbBuild(t)
    \/ \E t \in CallerThreads : SvOpen(t)
    \/ \E t \in CallerThreads : SvWrite(t)
    \/ \E t \in CallerThreads : SvReplace(t)
    \/ \E t \in CallerThreads : SvCache(t)
    \/ \E t \in CallerThreads : SvFin(t)
    \/ \E t \in CallerThreads : RbRet(t)

SpecCallers == InitCallers /\ [][NextCallers]_vars

\* the requests that have arrived
Callers == {t \in CallerThreads : thr[t].pc # "idle"}

-----------------------------------------------------------------------------
(* The adaptive search loop of rebuild (SpecSearch).                       *)
(*                                                                         *)
(* The loop runs on n loaded points.  run_hdbscan is any clustering: each  *)
(* evaluation draws the score of its labeling from SearchOutcomes(n), the  *)
(* labels themselves staying opaque.  hist keeps the evaluations made.     *)

\* the store at rest, for the specifications that do not run it
StoreIdle ==
    /\ collection = <<>>
    /\ changes = 0
    /\ faults = 0
    /\ hdbscan = TRUE
    /\ singleton = 0
    /\ lock = <<>>
    /\ cache = <<>>
    /\ heap = <<>>
    /\ tmpFile = NoFile
    /\ snapFile = NoFile
    /\ clock = 0
    /\ thr = <<>>

\* collection sizes on both sides of every threshold of derive_params and
\* of target_min
SearchSizes == {0, 1, 20, 100, 101, 500, 501, 1500, 1501, 3000, 3001, 9600,
                25000, 30000}

\* the scores evaluate can give a labeling of n points: no cluster and all
\* noise, or a cluster count just below, at or just above target_min with a
\* noise ratio of zero, just within 0.65 or just above it
SearchOutcomes(n) ==
    IF n = 0 THEN {evaluate(<<>>)}
    ELSE {m \in [cluster_count : {0, target_min(n) - 1, target_min(n),
                                 target_min(n) + 1},
                 noise : {0, (65 * n) \div 100, (65 * n) \div 100 + 1, n},
                 total : {n}] :
            /\ m.cluster_count <= n - m.noise
            /\ m.cluster_count = 0 <=> m.noise = n}

\* one turn of the loop: run_hdbscan, evaluate, "Track best" and the exits;
\* a cluster of HDBSCAN holds at least min_cluster_size points
SearchEval ==
    /\ srch.pc = "loop"
    /\ srch.st.stop = ""
    /\ \E metrics \in SearchOutcomes(srch.st.n) :
          LET st == search_step(srch.st, <<>>, metrics)
          IN  /\ metrics.cluster_count * srch.st.params.min_cluster_size
                     <= srch.st.n - metrics.noise
              /\ srch' = [srch EXCEPT !.st = st, !.hist = Append(@, st.last)]
    /\ UNCHANGED <<storeVars, asm, qry, pre>>

\* "Use best found": rebuild goes on with best_state
SearchReturn ==
    /\ srch.pc = "loop"
    /\ srch.st.stop # ""
    /\ srch' = [srch EXCEPT !.pc = "returned", !.result = srch.st.best_state]
    /\ UNCHANGED <<storeVars, asm, qry, pre>>

InitSearch ==
    /\ StoreIdle
    /\ srch \in {[pc |-> "loop", st |-> search_init(n), hist |-> <<>>,
                  result |-> None] : n \in SearchSizes}
    /\ asm = Off
    /\ qry = Off
    /\ pre = Off

NextSearch == SearchEval \/ SearchReturn

SpecSearch == InitSearch /\ [][NextSearch]_vars

\* C7: the loop makes at most max_iters evaluations and is left after the
\* last of them; what it returns is one of the evaluations made, and none of
\* them found more clusters, or as many with a lower noise ratio
SearchEndsWithBest ==
    srch.pc # "off" =>
        /\ srch.st.evals <= max_iters
        /\ Len(srch.hist) = srch.st.evals
        /\ srch.st.evals = max_iters => srch.st.stop # ""
        /\ srch.pc = "returned" =>
              /\ srch.result # None
              /\ \E i \in 1 .. Len(srch.hist) : srch.hist[i] = srch.result
              /\ \A i \in 1 .. Len(srch.hist) :
                    LET m == srch.hist[i].metrics
                        b == srch.result.metrics
                    IN  /\ m.cluster_count <= b.cluster_count
                        /\ m.cluster_count = b.cluster_count => ~NoiseLess(m, b)

\* C7 (case): the loop returned after max_iters evaluations none of which
\* reached the target cluster count
TargetNeverReached ==
    /\ srch.pc = "returned"
    /\ srch.st.evals = max_iters
    /\ \A i \in 1 .. Len(srch.hist) :
          srch.hist[i].metrics.cluster_count < target_min(srch.st.n)

\* min_cluster_size of a parameter set lies within the configured bounds
InBounds(params) ==
    /\ params.min_cluster_size >= TOPIC_CLUSTERING_MIN_CLUSTER_SIZE_FLOOR
    /\ params.min_cluster_size <= TOPIC_CLUSTERING_MIN_CLUSTER_SIZE_MAX

\* C8: the min_cluster_size derive_params starts the search with, the one of
\* every evaluation and the one returned lie within [floor, cap]
MinClusterSizeInBounds ==
    srch.pc # "off" =>
        /\ InBounds(derive_params(srch.st.n))
        /\ InBounds(srch.st.params)
        /\ \A i \in 1 .. Len(srch.hist) : InBounds(srch.hist[i].params)
        /\ srch.pc = "returned" => InBounds(srch.result.params)

\* C8 (case): a search that started above the floor returns parameters an
\* adaptation clamped to the floor
ReturnedAtFloor ==
    /\ srch.pc = "returned"
    /\ derive_params(srch.st.n).min_cluster_size
           > TOPIC_CLUSTERING_MIN_CLUSTER_SIZE_FLOOR
    /\ srch.result.params.min_cluster_size = TOPIC_CLUSTERING_MIN_CLUSTER_SIZE_FLOOR
    /\ (3 * srch.hist[Len(srch.hist) - 1].params.min_cluster_size) \div 4
           < TOPIC_CLUSTERING_MIN_CLUSTER_SIZE_FLOOR

\* C17: the result returned is a maximum of the evaluations made under "more
\* clusters first, then lower noise ratio": no evaluation counts more
\* clusters, and none with as many has a lower noise ratio
ReturnedIsMaximum ==
    srch.pc = "returned" =>
        \A i \in 1 .. Len(srch.hist) :
            LET m == srch.hist[i].metrics
                b == srch.result.metrics
            IN  /\ ~(m.cluster_count > b.cluster_count)
                /\ ~(m.cluster_count = b.cluster_count
                        /\ m.noise * b.total < b.noise * m.total)

\* C17 (case): the result returned is not the evaluation made last, and it
\* won a tie on the cluster count by its lower noise ratio
EarlierEvaluationReturned ==
    /\ srch.pc = "returned"
    /\ srch.result # srch.hist[Len(srch.hist)]
    /\ \E i \in 1 .. Len(srch.hist) :
          /\ srch.hist[i].metrics.cluster_count = srch.result.metrics.cluster_count
          /\ srch.hist[i].metrics.noise > srch.result.metrics.noise

\* the acceptance test as the search states it, N/120 being the integer
\* quotient: cluster_count >= clamp(N/120, 15, 80) and noise_ratio <= 0.65
MeetsTarget(m, n) ==
    LET q == n \div 120
        target == IF q < 15 THEN 15 ELSE IF q > 80 THEN 80 ELSE q
    IN  /\ m.cluster_count >= target
        /\ 100 * m.noise <= 65 * m.total

\* C18: every evaluation but the last failed the acceptance test, so that no
\* evaluation follows one that passes it; the search is left by the early
\* stop exactly when the last evaluation passes it
StopsAtFirstAccepted ==
    srch.pc # "off" =>
        /\ \A i \in 1 .. Len(srch.hist) - 1 :
              ~MeetsTarget(srch.hist[i].metrics, srch.st.n)
        /\ srch.st.stop = "accept"
              <=> /\ srch.hist # <<>>
                  /\ MeetsTarget(srch.hist[Len(srch.hist)].metrics, srch.st.n)

\* C18 (case): the search went on after an evaluation that reached the
\* target cluster count with too much noise, and stopped early later
AcceptedAfterNoisyEvaluation ==
    /\ srch.pc = "returned"
    /\ srch.st.stop = "accept"
    /\ \E i \in 1 .. Len(srch.hist) - 1 :
          LET m == srch.hist[i].metrics
          IN  /\ m.cluster_count >= target_min(srch.st.n)
              /\ 100 * m.noise > 65 * m.total

\* C19: a Leaf evaluation at the floor that fails the acceptance test is
\* followed by exactly one more evaluation, by ExcessOfMass with the same
\* parameters, before the search returns
FloorRetriedWithEom ==
    srch.pc = "returned" =>
        \A i \in 1 .. Len(srch.hist) :
            LET h == srch.hist[i]
            IN  (/\ h.selection_method = "leaf"
                 /\ h.params.min_cluster_size = TOPIC_CLUSTERING_MIN_CLUSTER_SIZE_FLOOR
                 /\ ~MeetsTarget(h.metrics, srch.st.n))
                    => /\ Len(srch.hist) = i + 1
                       /\ srch.hist[i + 1].selection_method = "eom"
                       /\ srch.hist[i + 1].params = h.params

\* C24 (as stated): every parameter set passed to run_hdbscan for n > 0
\* points has min_samples >= 3
MinSamplesAtLeastThree ==
    (srch.pc # "off" /\ srch.st.n > 0) =>
        \A i \in 1 .. Len(srch.hist) : srch.hist[i].params.min_samples >= 3

\* C24 (amended): every parameter set passed to run_hdbscan for n > 0 points
\* has min_samples >= 2, and >= 3 once a shrink step has produced it; the
\* set of derive_params has min_samples 2 exactly when its min_cluster_size
\* is below 10
MinSamplesFloors ==
    (srch.pc # "off" /\ srch.st.n > 0) =>
        \A i \in 1 .. Len(srch.hist) :
            LET p == srch.hist[i].params
                shrunk == p.min_cluster_size < srch.hist[1].params.min_cluster_size
            IN  /\ p.min_samples >= 2
                /\ shrunk => p.min_samples >= 3
                /\ ~shrunk => (p.min_samples = 2 <=> p.min_cluster_size < 10)

\* C24 (case): a search whose first parameter set has min_samples 2 and
\* whose second, made by a shrink step, has min_samples 3
ShrunkFromTwoSamples ==
    /\ srch.pc = "returned"
    /\ Len(srch.hist) >= 2
    /\ srch.hist[1].params.min_samples = 2
    /\ srch.hist[2].params.min_samples = 3
    /\ srch.hist[2].params.min_cluster_size < srch.hist[1].params.min_cluster_size

\* C26: when the loop is left by the early acceptance, the result returned
\* has cluster_count >= target_min and noise_ratio <= 0.65
AcceptedResultReturned ==
    (srch.pc = "returned" /\ srch.st.stop = "accept") =>
        MeetsTarget(srch.result.metrics, srch.st.n)

-----------------------------------------------------------------------------
(* From the selected labeling to the snapshot document (SpecAssemble).     *)
(*                                                                         *)
(* rebuild lines 510-513 on the ids load_embeddings returned (distinct, as *)
(* the collection's ids are) and any labeling of them, under every answer  *)
(* of the text-generation service.                                         *)

\* "Ab " and the keywords " Ab", "ab", " ", "cd"
LabelAb == <<65, 98, 32>>
KeywordsAb == << <<32, 65, 98>>, <<97, 98>>, <<32>>, <<99, 100>> >>
\* five distinct keywords, one more than TOPIC_CLUSTERING_LABEL_MAX_KEYWORDS
KeywordsFive == << <<97>>, <<98>>, <<99>>, <<100>>, <<101>> >>

\* the answers to one request: it raises, nothing parses, or a parsed set
\* naming every cluster, no cluster, or cluster 0 with an empty label
LlmResponses ==
    {[kind |-> "raise"], [kind |-> "unparsed"],
     [kind |-> "ok",
      parsed |-> [c \in 0 .. 2 * batch_size |->
                     [label |-> LabelAb, keywords |-> KeywordsAb]]],
     [kind |-> "ok", parsed |-> <<>>],
     [kind |-> "ok",
      parsed |-> [c \in {0} |-> [label |-> <<>>, keywords |-> KeywordsFive]]]}

\* number of requests label_clusters makes for n clusters
NumChunks(n) == (n + batch_size - 1) \div batch_size

\* the labelings of up to MaxPoints points with labels in -1 .. MaxLabel,
\* and one that puts batch_size + 1 points in a cluster each and one in noise
AsmLabelings ==
    UNION {[1 .. n -> -1 .. MaxLabel] : n \in 0 .. MaxPoints}
        \cup {[i \in 1 .. batch_size + 2 |-> IF i > batch_size + 1 THEN -1 ELSE i - 1]}

\* the state before line 510: enable is the value of the setting
\* config.TOPIC_CLUSTERING_ENABLE_LLM_LABELS, which no line of the service
\* reads
AsmStart(labels, api_key, client, responses, enable) ==
    [pc |-> "start", ids |-> [i \in 1 .. Len(labels) |-> i], labels |-> labels,
     enable_llm_labels |-> enable, api_key |-> api_key, llm |-> [client |-> client, responses |-> responses],
     clusters |-> <<>>, snapshot |-> None, file |-> NoFile, loaded |-> None]

\* cluster_members = self._build_cluster_members(labels, probs, ids, texts)
AsmMembers ==
    /\ asm.pc = "start"
    /\ asm' = [asm EXCEPT !.pc = "members",
                          !.clusters = _build_cluster_members(asm.labels, asm.ids)]
    /\ UNCHANGED <<storeVars, srch, qry, pre>>

\* labeled_clusters = self.label_clusters(cluster_members)
AsmLabel ==
    /\ asm.pc = "members"
    /\ asm' = [asm EXCEPT !.pc = "labeled",
                          !.clusters = label_clusters(asm.clusters, asm.api_key, asm.llm)]
    /\ UNCHANGED <<storeVars, srch, qry, pre>>

\* snapshot = self.build_snapshot(ids, labels, ..., labeled_clusters)
AsmSnapshot ==
    /\ asm.pc = "labeled"
    /\ asm' = [asm EXCEPT !.pc = "done",
                          !.snapshot = build_snapshot(asm.ids, asm.labels,
                                           evaluate(asm.labels),
                                           derive_params(Len(asm.ids)),
                                           asm.clusters, 1)]
    /\ UNCHANGED <<storeVars, srch, qry, pre>>

\* self.save_snapshot_atomic(snapshot), no other thread saving
AsmSave ==
    /\ asm.pc = "done"
    /\ asm' = [asm EXCEPT !.pc = "saved", !.file = FileOf(asm.snapshot)]
    /\ UNCHANGED <<storeVars, srch, qry, pre>>

\* load_snapshot of a service constructed after the save: its cache is
\* None and the file is read
AsmLoad ==
    /\ asm.pc = "saved"
    /\ asm' = [asm EXCEPT !.pc = "loaded",
                          !.loaded = IF Parses(asm.file) THEN Parsed(asm.file)
                                     ELSE None]
    /\ UNCHANGED <<storeVars, srch, qry, pre>>

InitAssemble ==
    /\ StoreIdle
    /\ srch = Off
    /\ qry = Off
    /\ pre = Off
    /\ \E labels \in AsmLabelings, api_key \in BOOLEAN, client \in BOOLEAN,
          enable \in BOOLEAN :
          \E responses \in
                 [1 .. NumChunks(Cardinality(Range(labels) \ {-1})) -> LlmResponses] :
              asm = AsmStart(labels, api_key, client, responses, enable)

NextAssemble == AsmMembers \/ AsmLabel \/ AsmSnapshot \/ AsmSave \/ AsmLoad

SpecAssemble == InitAssemble /\ [][NextAssemble]_vars

RECURSIVE SumSizes(_)
SumSizes(clusters) ==
    IF clusters = <<>> THEN 0 ELSE Head(clusters).size + SumSizes(Tail(clusters))

\* C6: in the snapshot built, assignments holds every loaded id with the
\* label of its point; there is one cluster record per distinct label other
\* than -1; a record's size is the number of assignments with its id; the
\* sizes and the -1 assignments add up to total_videos
SnapshotCountsAddUp ==
    asm.pc = "done" =>
        LET s == asm.snapshot
            cids == Range(asm.labels) \ {-1}
        IN  /\ DOMAIN s.assignments = Range(asm.ids)
            /\ \A i \in 1 .. Len(asm.ids) : s.assignments[asm.ids[i]] = asm.labels[i]
            /\ Len(s.clusters) = Cardinality(cids)
            /\ {s.clusters[i].id : i \in 1 .. Len(s.clusters)} = cids
            /\ \A i \in 1 .. Len(s.clusters) :
                  s.clusters[i].size =
                      Cardinality({v \in DOMAIN s.assignments :
                                      s.assignments[v] = s.clusters[i].id})
            /\ SumSizes(s.clusters)
                   + Cardinality({v \in DOMAIN s.assignments : s.assignments[v] = -1})
                   = s.total_videos
            /\ s.total_videos = Len(asm.ids)

\* C6 (case): a snapshot built from a labeling with a noise point and a
\* cluster of several points
SnapshotWithNoiseBuilt ==
    /\ asm.pc = "done"
    /\ \E i \in 1 .. Len(asm.labels) : asm.labels[i] = -1
    /\ \E i \in 1 .. Len(asm.snapshot.clusters) : asm.snapshot.clusters[i].size > 1

\* every request label_clusters makes for the clusters of asm fails
EveryRequestFails ==
    /\ asm.api_key
    /\ asm.llm.client
    /\ Len(asm.snapshot.clusters) > 0
    /\ \A k \in 1 .. NumChunks(Len(asm.snapshot.clusters)) :
          asm.llm.responses[k].kind \in {"raise", "unparsed"}

\* C9: when every request to the text-generation service raises or returns
\* nothing that parses, the snapshot is built all the same and each of its
\* clusters has the label cluster_<id> of its own id and no keywords
PlaceholdersWhenLabelingFails ==
    /\ (asm.pc = "labeled" /\ asm.api_key /\ asm.llm.client) => ENABLED AsmSnapshot
    /\ (asm.pc = "done" /\ EveryRequestFails) =>
          \A i \in 1 .. Len(asm.snapshot.clusters) :
              LET c == asm.snapshot.clusters[i]
              IN  /\ c.label = PlaceholderLabel(c.id)
                  /\ c.top_keywords = <<>>

\* C9 (case): a snapshot built after two requests, the first answered by
\* nothing that parses and the second raising
BuiltAfterFailedRequests ==
    /\ asm.pc = "done"
    /\ EveryRequestFails
    /\ Len(asm.snapshot.clusters) > batch_size
    /\ asm.llm.responses[1].kind = "unparsed"
    /\ asm.llm.responses[2].kind = "raise"

\* C20: a failed request costs the clusters of its own chunk their labels and
\* no others: in the snapshot a cluster of a chunk whose request failed has
\* the placeholder label and no keywords, and a cluster that the parsed
\* answer to the request of its chunk names with a label keeps that label
\* and its keywords
FailureStaysInChunk ==
    (asm.pc = "done" /\ asm.api_key /\ asm.llm.client) =>
        \A i \in 1 .. Len(asm.snapshot.clusters) :
            LET c == asm.snapshot.clusters[i]
                k == ((i - 1) \div batch_size) + 1
                r == asm.llm.responses[k]
                asked == \A j \in 1 .. k - 1 : asm.llm.responses[j].kind # "raise"
            IN  /\ (asked /\ r.kind \in {"raise", "unparsed"})
                    => /\ c.label = PlaceholderLabel(c.id)
                       /\ c.top_keywords = <<>>
                /\ (asked /\ r.kind = "ok" /\ c.id \in DOMAIN r.parsed
                          /\ r.parsed[c.id].label # <<>>)
                    => /\ c.label = strip(r.parsed[c.id].label)
                       /\ c.top_keywords # <<>>

DisabledLabelingGivesPlaceholders ==
    /\ (asm.pc = "labeled" /\ ~asm.enable_llm_labels) => ENABLED AsmSnapshot
    /\ (asm.pc = "done" /\ ~asm.enable_llm_labels) =>
          \A i \in 1 .. Len(asm.snapshot.clusters) :
              LET c == asm.snapshot.clusters[i]
              IN  /\ c.label = PlaceholderLabel(c.id)
                  /\ c.top_keywords = <<>>

\* C22: with TOPIC_CLUSTERING_ENABLE_LLM_LABELS True and no API key the
\* rebuild stops at the labeling: no snapshot is built and none is saved
LabelingWithoutKeyAborts ==
    (asm.enable_llm_labels /\ ~asm.api_key) =>
        /\ asm.pc \in {"start", "members"}
        /\ asm.snapshot = None
        /\ ~asm.file.exists

-----------------------------------------------------------------------------
(* get_topics as a function of the cached snapshot and its arguments       *)
(* (SpecQuery): one call, with no other thread touching the snapshot.      *)

\* the labels "a", "B" and "b", and the sizes, the clusters are drawn from
QueryLabels == {<<97>>, <<66>>, <<98>>}
QuerySizes == {1, 2}
QuerySorts == {"size_desc", "size_asc", "alpha", "alpha_desc", "newest"}
QueryLimits == {NoLimit} \cup {<<k>> : k \in -1 .. MaxLimit}

RECURSIVE PointLabels(_, _)
\* the labeling that gives cluster i - 1 its szs[i] points
PointLabels(szs, i) ==
    IF i > Len(szs) THEN <<>>
    ELSE [j \in 1 .. szs[i] |-> i - 1] \o PointLabels(szs, i + 1)

\* the snapshot rebuild leaves in the cache for clusters of the sizes szs
\* that the labeler named lbls
QuerySnapshot(lbls, szs) ==
    LET labels == PointLabels(szs, 1)
        ids == [i \in 1 .. Len(labels) |-> i]
        members == _build_cluster_members(labels, ids)
    IN  build_snapshot(ids, labels, evaluate(labels), derive_params(Len(ids)),
                       [i \in 1 .. Len(members) |->
                           [members[i] EXCEPT !.labeled = TRUE, !.label = lbls[i]]],
                       1)

\* GET /topics: get_topics sorts the cached list in place and returns a page
QueryGetTopics ==
    /\ qry.pc = "called"
    /\ qry' = [qry EXCEPT
                 !.pc = "returned",
                 !.result = get_topics(qry.snap, qry.sort, qry.limit, qry.offset),
                 !.snap.clusters = list_sort(qry.snap.clusters, qry.sort)]
    /\ UNCHANGED <<storeVars, srch, asm, pre>>

InitQuery ==
    /\ StoreIdle
    /\ srch = Off
    /\ asm = Off
    /\ pre = Off
    /\ \E n \in 0 .. MaxClusters :
          \E lbls \in [1 .. n -> QueryLabels], szs \in [1 .. n -> QuerySizes],
             sort \in QuerySorts, limit \in QueryLimits, offset \in 0 .. MaxOffset :
              qry = [pc |-> "called", snap |-> QuerySnapshot(lbls, szs),
                     sort |-> sort, limit |-> limit, offset |-> offset,
                     result |-> None]

NextQuery == QueryGetTopics

SpecQuery == InitQuery /\ [][NextQuery]_vars

\* s is in the order the sort key asks for
OrderedBy(s, sort) ==
    \A i, j \in 1 .. Len(s) :
        i < j =>
            IF sort = "size_asc" THEN s[i].size <= s[j].size
            ELSE IF sort = "alpha"
            THEN ~StrLess(lower(s[j].label), lower(s[i].label))
            ELSE IF sort = "alpha_desc"
            THEN ~StrLess(lower(s[i].label), lower(s[j].label))
            ELSE s[i].size >= s[j].size

\* the elements of s at the 0-based positions offset <= i < offset + limit
PageOf(s, offset, limit) ==
    LET hi == IF limit = NoLimit THEN Len(s) ELSE Min(Len(s), offset + limit[1])
    IN  [k \in 1 .. Max(0, hi - offset) |-> s[offset + k]]

\* the result is the page of some ordering of the snapshot's clusters
PageReturned ==
    LET cl == qry.snap.clusters
    IN  /\ \E p \in [1 .. Len(cl) -> 1 .. Len(cl)] :
              LET s == [i \in 1 .. Len(cl) |-> cl[p[i]]]
              IN  /\ \A i, j \in 1 .. Len(cl) : i # j => p[i] # p[j]
                  /\ OrderedBy(s, qry.sort)
                  /\ qry.result.clusters = PageOf(s, qry.offset, qry.limit)
        /\ qry.result.total = Len(cl)
        /\ qry.result.count = Len(qry.result.clusters)

\* C10: for every snapshot, sort key, offset >= 0 and limit that is None or
\* not negative, get_topics returns the slice [offset, offset + limit) of the
\* clusters in the order of the key, total is the number of clusters and
\* count the length of the slice
TopicsPageIsSlice ==
    (qry.pc = "returned" /\ (qry.limit = NoLimit \/ qry.limit[1] >= 0))
        => PageReturned

\* C10 (case): a page cut on both sides out of clusters that the call had
\* to reorder
PageCutFromReordered ==
    /\ qry.pc = "returned"
    /\ qry.limit # NoLimit
    /\ qry.limit[1] > 0
    /\ qry.offset > 0
    /\ qry.offset + qry.limit[1] < Len(qry.snap.clusters)
    /\ qry.snap.clusters[1].id # 0

\* C10 as stated, for every limit: the slice [offset, offset + limit) of a
\* negative limit holds no cluster
TopicsPageIsSliceAnyLimit == qry.pc = "returned" => PageReturned

-----------------------------------------------------------------------------
(* preprocess_embeddings on a matrix of n rows and dim columns             *)
(* (SpecPreprocess).  The rows themselves stay opaque: of the fitted PCA   *)
(* the model keeps k, the number of leading components whose cumulative    *)
(* explained variance first reaches the threshold, plus one when none      *)
(* does.                                                                   *)

\* "if pca_choice == 'pca' and Xn.shape[0] > 0" and "if n > 3000 or dim > 384"
pca_applies(pca_choice, n, dim) ==
    pca_choice = "pca" /\ n > 0 /\ (n > 3000 \/ dim > 384)

\* target = min(max_comp, dim, max(10, int(0.1 * n)))
pca_target(n, dim) ==
    Min(TOPIC_CLUSTERING_PCA_MAX_COMPONENTS, Min(dim, Max(10, IntFrac(1, 10, n))))

\* PCA(n_components=target).fit_transform(Xn) on n rows of dim columns:
\* scikit-learn raises ValueError unless target is between 1 and
\* min(n, dim)
pca_fits(target, n, dim) == 1 <= target /\ target <= Min(n, dim)

\* preprocess_embeddings: the shape of the matrix returned and
\* info['pca_components'], or the exception of the fit; applied tells that
\* the matrix returned is the transform of the PCA
preprocess_embeddings(n, dim, pca_choice, k) ==
    IF n * dim = 0
    THEN [raised |-> FALSE, applied |-> FALSE, rows |-> n, cols |-> dim,
          pca_components |-> 0]
    ELSE IF pca_applies(pca_choice, n, dim)
    THEN LET target == pca_target(n, dim)
             kept == IF k < target THEN k ELSE target
         IN  IF ~pca_fits(target, n, dim)
             THEN [raised |-> TRUE, applied |-> FALSE, rows |-> 0, cols |-> 0,
                   pca_components |-> 0]
             ELSE [raised |-> FALSE, applied |-> TRUE, rows |-> n, cols |-> kept,
                   pca_components |-> kept]
    ELSE [raised |-> FALSE, applied |-> FALSE, rows |-> n, cols |-> dim,
          pca_components |-> dim]

\* row and column counts on both sides of the thresholds 3000 and 384 and
\* of the ten components max(10, ...) asks for
PreRows == {0, 1, 5, 9, 10, 11, 100, 499, 500, 3000, 3001, 5000}
PreCols == {1, 5, 10, 50, 384, 385, 768}
PreChoices == {"pca", "none"}
PreKs == {1, 2, 10, 11, 49, 50, 51}

\* X_proc, pca_info = self.preprocess_embeddings(X)
PreRun ==
    /\ pre.pc = "start"
    /\ pre' = [pre EXCEPT !.pc = "done",
                          !.out = preprocess_embeddings(pre.n, pre.dim,
                                                        pre.pca_choice, pre.k)]
    /\ UNCHANGED <<storeVars, srch, asm, qry>>

InitPreprocess ==
    /\ StoreIdle
    /\ srch = Off
    /\ asm = Off
    /\ qry = Off
    /\ pre \in {[pc |-> "start", n |-> n, dim |-> IF n = 0 THEN 0 ELSE dim,
                 pca_choice |-> c, k |-> k, out |-> None] :
                   n \in PreRows, dim \in PreCols, c \in PreChoices, k \in PreKs}

NextPreprocess == PreRun

SpecPreprocess == InitPreprocess /\ [][NextPreprocess]_vars

\* C23: with TOPIC_CLUSTERING_DIM_REDUCTION = 'pca' the preprocessing that
\* returns a matrix returns the transform of the PCA only for a matrix with
\* more than 3000 rows and more than 384 columns, and else returns a matrix
\* of the dim columns it was given, with pca_components = dim
ReducesOnlyAboveBothThresholds ==
    (pre.pc = "done" /\ pre.pca_choice = "pca" /\ pre.n > 0 /\ ~pre.out.raised) =>
        /\ pre.out.applied => (pre.n > 3000 /\ pre.dim > 384)
        /\ ~(pre.n > 3000 /\ pre.dim > 384) =>
              /\ pre.out.cols = pre.dim
              /\ pre.out.pca_components = pre.dim

\* C30: whenever the PCA is fitted, the number of components asked for is
\* at most min(n, dim), the fit raises nothing, and the number of components
\* kept is between 1 and the number asked for
PcaTargetFits ==
    (pre.pc = "done" /\ pca_applies(pre.pca_choice, pre.n, pre.dim)) =>
        /\ pca_target(pre.n, pre.dim) <= Min(pre.n, pre.dim)
        /\ ~pre.out.raised
        /\ 1 <= pre.out.pca_components
        /\ pre.out.pca_components <= pca_target(pre.n, pre.dim)

====
